---- MODULE Spec2Model ----
(***************************************************************************)
(* Model of the predictive maintenance agent workflow                      *)
(* (src/predictive_maintenance_agent/orchestrator.py): the UEBA security   *)
(* wrapper with its ALLOWED_TOOLS table, the six agent nodes, the decision *)
(* router should_schedule and the graph that app.invoke walks, together    *)
(* with the mock scheduling API (mock_api.py) and the data written by      *)
(* generate_data.py.                                                       *)
(*                                                                         *)
(* Conventions.  A Python dict is a function whose DOMAIN is its key set   *)
(* (a read of an absent key is a KeyError).  Python lists are sequences,   *)
(* so the 0-based index i of the source is i + 1 here.  Floating point     *)
(* values with one decimal are kept in tenths.  A text produced by the     *)
(* language model is a sequence of tokens (words, white space, quotes).    *)
(***************************************************************************)
EXTENDS Integers, Sequences, FiniteSets, TLC

VARIABLES
    pc,             \* the graph position: the node to run next, "should_schedule", "END" or "FAILED"
    state,          \* the WorkflowState dict handed from node to node
    allowed_tools,  \* the module-level ALLOWED_TOOLS table
    audit,          \* the [UEBA] lines printed by the wrapper, in order
    calls,          \* the callables the wrapper executed, in order
    effects,        \* the external effects performed (CSV, model, HTTP), in order
    executed,       \* the nodes run so far, in order
    raised,         \* the exception that left app.invoke, if any
    final_state,    \* the module-level name final_state (bound only when app.invoke returns)
    route_label,    \* the label returned by the last evaluation of the router
    driving_style,  \* data/customer_profiles.csv: driving_style of the flagged vehicle
    health_score,   \* data/customer_profiles.csv: health_score of the flagged vehicle
    llm_answer,     \* the raw text of the model's answer to the diagnosis prompt
    bookings,       \* the booking requests the mock API received, in order
    args,           \* the arguments of a function applied on its own
    result          \* the value that application returned

vars == <<pc, state, allowed_tools, audit, calls, effects, executed, raised,
          final_state, route_label, driving_style, health_score, llm_answer,
          bookings, args, result>>

-----------------------------------------------------------------------------
(* Python values *)

EmptyDict == [k \in {} |-> TRUE]

SetItem(d, key, v) == [k \in (DOMAIN d) \cup {key} |-> IF k = key THEN v ELSE d[k]]

HasKey(d, key) == key \in DOMAIN d

Range(s) == {s[i] : i \in 1..Len(s)}

\* dict.get(key, default)
DictGet(d, key, default) == IF key \in DOMAIN d THEN d[key] ELSE default

NoError == [type |-> "None", msg |-> "", node |-> ""]

Unbound == [bound |-> FALSE, value |-> EmptyDict]

NoLabel == "none"

NoAnswer == <<"<no answer>">>

NoArgs == [fn |-> "none"]

NoResult == [fn |-> "none"]

-----------------------------------------------------------------------------
(* The UEBA security layer *)

\* Variant: a FeedbackAgent that may read but not write.
ALLOWED_TOOLS_readonly ==
    [ DataAnalysisAgent       |-> <<"read_csv">>,
      DiagnosisAgent          |-> <<"read_csv", "llm_invoke">>,
      CustomerEngagementAgent |-> <<"llm_invoke">>,
      SchedulingAgent         |-> <<"get_service_slots", "book_appointment">>,
      FeedbackAgent           |-> <<"read_csv", "llm_invoke">> ]

\* Variant: the customer engagement role may not call the model.
ALLOWED_TOOLS_no_engagement ==
    [ DataAnalysisAgent       |-> <<"read_csv">>,
      DiagnosisAgent          |-> <<"read_csv", "llm_invoke">>,
      CustomerEngagementAgent |-> <<>>,
      SchedulingAgent         |-> <<"get_service_slots", "book_appointment">>,
      FeedbackAgent           |-> <<"read_csv", "write_csv", "llm_invoke">> ]

ALLOWED_TOOLS ==
    [ DataAnalysisAgent       |-> <<"read_csv">>,
      DiagnosisAgent          |-> <<"read_csv", "llm_invoke">>,
      CustomerEngagementAgent |-> <<"llm_invoke">>,
      SchedulingAgent         |-> <<"get_service_slots", "book_appointment">>,
      FeedbackAgent           |-> <<"read_csv", "write_csv", "llm_invoke">> ]

\* Variant: ALLOWED_TOOLS[agent_name] consulted only for the roles the table knows.
permits_open(table, agent_name, tool_name) ==
    agent_name \notin DOMAIN table \/ tool_name \in Range(table[agent_name])

\* tool_name in ALLOWED_TOOLS.get(agent_name, [])
permits(table, agent_name, tool_name) ==
    tool_name \in Range(DictGet(table, agent_name, <<>>))

PermissionErrorMsg(agent_name, tool_name) ==
    "Unauthorized access attempt by " \o agent_name \o " on tool " \o tool_name

\* The external effects each wrapped callable performs, in order.
FuncEffects(func) ==
    CASE func = "analyze_telemetry_data"        -> <<"read_csv">>
      [] func = "get_diagnosis_and_drps"        -> <<"read_csv", "read_csv", "llm_invoke">>
      [] func = "generate_xai_customer_message" -> <<"llm_invoke">>
      [] func = "get_service_slots"             -> <<"get_service_slots">>
      [] func = "book_appointment"              -> <<"book_appointment">>
      [] func = "perform_rca_and_update_score"  -> <<"read_csv", "read_csv", "read_csv", "write_csv">>
      [] OTHER                                  -> <<>>

\* What func(*args, **kwargs) returns, and the absence of a returned value.
FuncReturn(func) == [returned_by |-> func]

NoValue == [returned_by |-> "none"]

World ==
    [audit |-> audit, calls |-> calls, effects |-> effects, raised |-> raised,
     table |-> allowed_tools, value |-> NoValue]

\* The effects of func up to its n-th one, performed by node under the name tool_name.
EffectRecords(node, agent_name, tool_name, func, n) ==
    [i \in 1..n |-> [node |-> node, agent |-> agent_name,
                     effect |-> FuncEffects(func)[i], via |-> tool_name]]

\* Variant: func is called first and the table consulted after it.
ueba_security_wrapper_always(w, node, agent_name, tool_name, func, failAt) ==
    LET n == IF failAt = 0 THEN Len(FuncEffects(func)) ELSE failAt
        ok == permits(w.table, agent_name, tool_name)
    IN [ table   |-> w.table,
         value   |-> IF ok /\ failAt = 0 THEN FuncReturn(func) ELSE NoValue,
         audit   |-> Append(w.audit, [agent |-> agent_name, tool |-> tool_name,
                                      outcome |-> IF ok THEN "ALLOWED" ELSE "DENIED"]),
         calls   |-> Append(w.calls, [agent |-> agent_name, tool |-> tool_name, func |-> func]),
         effects |-> w.effects \o EffectRecords(node, agent_name, tool_name, func, n),
         raised  |-> IF ~ok
                     THEN [type |-> "PermissionError",
                           msg |-> PermissionErrorMsg(agent_name, tool_name), node |-> node]
                     ELSE IF failAt = 0 THEN NoError
                     ELSE [type |-> "CapabilityFailure",
                           msg |-> FuncEffects(func)[failAt], node |-> node] ]

\* Variant: the ALLOWED line printed only once func has returned.
ueba_security_wrapper_log_after(w, node, agent_name, tool_name, func, failAt) ==
    LET n == IF failAt = 0 THEN Len(FuncEffects(func)) ELSE failAt
        ok == permits(w.table, agent_name, tool_name)
    IN [ table   |-> w.table,
         value   |-> IF ok /\ failAt = 0 THEN FuncReturn(func) ELSE NoValue,
         audit   |-> IF ok /\ failAt # 0 THEN w.audit
                     ELSE Append(w.audit, [agent |-> agent_name, tool |-> tool_name,
                                           outcome |-> IF ok THEN "ALLOWED" ELSE "DENIED"]),
         calls   |-> IF ok THEN Append(w.calls, [agent |-> agent_name, tool |-> tool_name,
                                                 func |-> func])
                     ELSE w.calls,
         effects |-> IF ok THEN w.effects \o EffectRecords(node, agent_name, tool_name, func, n)
                     ELSE w.effects,
         raised  |-> IF ~ok
                     THEN [type |-> "PermissionError",
                           msg |-> PermissionErrorMsg(agent_name, tool_name), node |-> node]
                     ELSE IF failAt = 0 THEN NoError
                     ELSE [type |-> "CapabilityFailure",
                           msg |-> FuncEffects(func)[failAt], node |-> node] ]

\* Variant: a denied tool name is entered in the role's list as the call is refused.
ueba_security_wrapper_registers(w, node, agent_name, tool_name, func, failAt) ==
    LET n == IF failAt = 0 THEN Len(FuncEffects(func)) ELSE failAt
        ok == permits(w.table, agent_name, tool_name)
    IN [ value   |-> IF ok /\ failAt = 0 THEN FuncReturn(func) ELSE NoValue,
         table   |-> IF ok THEN w.table
                     ELSE SetItem(w.table, agent_name,
                                  Append(DictGet(w.table, agent_name, <<>>), tool_name)),
         audit   |-> Append(w.audit, [agent |-> agent_name, tool |-> tool_name,
                                      outcome |-> IF ok THEN "ALLOWED" ELSE "DENIED"]),
         calls   |-> IF ok THEN Append(w.calls, [agent |-> agent_name, tool |-> tool_name,
                                                 func |-> func])
                     ELSE w.calls,
         effects |-> IF ok THEN w.effects \o EffectRecords(node, agent_name, tool_name, func, n)
                     ELSE w.effects,
         raised  |-> IF ~ok
                     THEN [type |-> "PermissionError",
                           msg |-> PermissionErrorMsg(agent_name, tool_name), node |-> node]
                     ELSE IF failAt = 0 THEN NoError
                     ELSE [type |-> "CapabilityFailure",
                           msg |-> FuncEffects(func)[failAt], node |-> node] ]

\* ueba_security_wrapper(agent_name, tool_name, func, ...): failAt = 0 when func
\* returns, k > 0 when the k-th external effect of func raises.
ueba_security_wrapper(w, node, agent_name, tool_name, func, failAt) ==
    IF permits(w.table, agent_name, tool_name)
    THEN LET n == IF failAt = 0 THEN Len(FuncEffects(func)) ELSE failAt
         IN [ table   |-> w.table,
              value   |-> IF failAt = 0 THEN FuncReturn(func) ELSE NoValue,
              audit   |-> Append(w.audit, [agent |-> agent_name, tool |-> tool_name,
                                           outcome |-> "ALLOWED"]),
              calls   |-> Append(w.calls, [agent |-> agent_name, tool |-> tool_name,
                                           func |-> func]),
              effects |-> w.effects \o EffectRecords(node, agent_name, tool_name, func, n),
              raised  |-> IF failAt = 0 THEN NoError
                          ELSE [type |-> "CapabilityFailure",
                                msg |-> FuncEffects(func)[failAt], node |-> node] ]
    ELSE [ table   |-> w.table,
           value   |-> NoValue,
           audit   |-> Append(w.audit, [agent |-> agent_name, tool |-> tool_name,
                                        outcome |-> "DENIED"]),
           calls   |-> w.calls,
           effects |-> w.effects,
           raised  |-> [type |-> "PermissionError",
                        msg |-> PermissionErrorMsg(agent_name, tool_name), node |-> node] ]

\* The ways func can end: 0 (it returns) or the index of the effect that raises.
Outcomes(func) == 0..Len(FuncEffects(func))

Ok(w) == w.raised = NoError

Commit(w) ==
    /\ audit' = w.audit
    /\ calls' = w.calls
    /\ effects' = w.effects
    /\ raised' = w.raised
    /\ allowed_tools' = w.table

-----------------------------------------------------------------------------
(* The data files written by generate_data.py *)

\* The first telemetry row with brake_fluid_pressure_psi < 450: vehicle 7, j = 0.
anomaly_row ==
    [vehicle_id |-> "veh_007", brake_fluid_pressure_psi |-> 300, brake_pad_thickness_mm |-> 2]

customer_profile == [customer_id |-> "cust_107", customer_name |-> "Neha"]

styles == {"City", "Highway", "Mixed"}

HealthScoreMin == 750

HealthScoreMax == 950

\* maintenance_logs.csv, column dtc_code_at_service
maintenance_dtc_codes == <<"None", "None", "C0204">>

rca_ids == <<"RCA-112">>

\* safety_impact_scores.csv, in file order
valid_components ==
    <<"Brakes", "Engine", "Transmission", "Steering", "Suspension", "Tires",
      "AC System", "Infotainment">>

safety_impact_score ==
    [c \in Range(valid_components) |->
        CASE c = "Brakes" -> 10 [] c = "Engine" -> 9 [] c = "Transmission" -> 8
          [] c = "Steering" -> 9 [] c = "Suspension" -> 7 [] c = "Tires" -> 8
          [] c = "AC System" -> 3 [] OTHER -> 1]

-----------------------------------------------------------------------------
(* The mock scheduling API (mock_api.py) *)

get_available_slots == [slots |-> <<"09:00 AM", "11:00 AM", "02:00 PM", "04:00 PM">>]

\* Variant: a backend that queues the booking instead of confirming it.
mock_book_appointment_pending(vehicle_id, slot) == [status |-> "pending", booking_id |-> "BK"]

mock_book_appointment(vehicle_id, slot) == [status |-> "confirmed", booking_id |-> "BK"]

-----------------------------------------------------------------------------
(* The tools *)

WhiteSpace == {" ", "\n"}

\* str.strip(): leading and trailing white space removed
RECURSIVE lstrip(_)
lstrip(s) == IF s # <<>> /\ Head(s) \in WhiteSpace THEN lstrip(Tail(s)) ELSE s

RECURSIVE rstrip(_)
rstrip(s) ==
    IF s # <<>> /\ s[Len(s)] \in WhiteSpace THEN rstrip(SubSeq(s, 1, Len(s) - 1)) ELSE s

strip(s) == rstrip(lstrip(s))

\* str.replace(old, ""): every occurrence of old removed
replace(s, old) == SelectSeq(s, LAMBDA tok : tok # old)

RECURSIVE Join(_)
Join(s) == IF s = <<>> THEN "" ELSE Head(s) \o Join(Tail(s))

\* llm.invoke(prompt).content.strip().replace("'", "").replace('"', '')
clean_answer(raw) == Join(replace(replace(strip(raw), "'"), "\""))

\* int(x) of the quotient n / d: truncation toward zero
Trunc(n, d) == IF n >= 0 THEN n \div d ELSE -((-n) \div d)

failure_risk_prob_pct == 92

\* failure_risk_prob * 10, in tenths
failure_risk_score10 == failure_risk_prob_pct

customer_factor_of(style) == IF style = "Highway" THEN 9 ELSE 5

\* Variant: the failure-risk term weighted 5 as the severity term is.
drps_heavy(safety_score, risk10, customer_factor) ==
    Trunc((safety_score * 50) + (risk10 * 5) + (customer_factor * 20), 10)

\* Variant: the severity term subtracted from its maximum.
drps_inverted(safety_score, risk10, customer_factor) ==
    Trunc((100 - safety_score * 50) + (risk10 * 3) + (customer_factor * 20), 10)

\* int((safety_score * 5) + (failure_risk_score * 3) + (customer_factor * 2)),
\* failure_risk_score given in tenths
drps_of(safety_score, risk10, customer_factor) ==
    Trunc((safety_score * 50) + (risk10 * 3) + (customer_factor * 20), 10)

\* Variant: only an empty answer is replaced.
checked_component_nonempty(predicted_component) ==
    IF predicted_component = "" THEN "Brakes" ELSE predicted_component

\* if predicted_component not in safety_df.index: predicted_component = "Brakes"
checked_component(predicted_component) ==
    IF predicted_component \notin DOMAIN safety_impact_score
    THEN "Brakes" ELSE predicted_component

\* safety_df.loc[c, 'safety_impact_score'], c having been checked against the index
SafetyScore(c) == IF c \in DOMAIN safety_impact_score THEN safety_impact_score[c] ELSE 0

get_diagnosis_and_drps(vehicle_id, anomaly, raw, style) ==
    LET predicted_component == checked_component(clean_answer(raw))
        safety_score == SafetyScore(predicted_component)
    IN [diagnosis |-> predicted_component,
        drps |-> drps_of(safety_score, failure_risk_score10, customer_factor_of(style))]

generate_xai_customer_message(customer_name, drps_score, anomaly_data, diagnosis) ==
    [customer_name |-> customer_name, diagnosis |-> diagnosis,
     urgency |-> IF drps_score < 75 THEN "non-urgent" ELSE "soon",
     pressure |-> anomaly_data.brake_fluid_pressure_psi,
     thickness |-> anomaly_data.brake_pad_thickness_mm]

health_delta == 50

recurrence_count ==
    Cardinality({i \in 1..Len(maintenance_dtc_codes) : maintenance_dtc_codes[i] = "C0204"})

perform_rca_and_update_score(vehicle_id, current_score) ==
    [insight |-> [rca_id |-> rca_ids[1], instance |-> recurrence_count + 1],
     new_score |-> current_score + health_delta]

-----------------------------------------------------------------------------
(* The graph *)

\* Variant: the graph entered at the diagnosis node.
entry_point_diagnosis == "diagnosis"

entry_point == "data_analysis"

\* Variant: the decline node wired on to the feedback node.
edges_decline_feedback ==
    [ data_analysis        |-> "diagnosis",
      diagnosis            |-> "customer_engagement",
      customer_engagement  |-> "should_schedule",
      scheduling           |-> "feedback_and_insight",
      feedback_and_insight |-> "END",
      handle_decline       |-> "feedback_and_insight" ]

edges ==
    [ data_analysis        |-> "diagnosis",
      diagnosis            |-> "customer_engagement",
      customer_engagement  |-> "should_schedule",
      scheduling           |-> "feedback_and_insight",
      feedback_and_insight |-> "END",
      handle_decline       |-> "END" ]

conditional_edges ==
    [ continue_to_scheduling |-> "scheduling",
      handle_decline         |-> "handle_decline" ]

KeyError(node, key) == [type |-> "KeyError", msg |-> key, node |-> node]

\* The fields of fs that s lacks, in reading order.
Missing(s, fs) == SelectSeq(fs, LAMBDA f : ~HasKey(s, f))

\* A node raised: app.invoke raises, and the name final_state is never bound.
Halt(node, s) ==
    /\ pc' = "FAILED"
    /\ state' = s
    /\ executed' = Append(executed, node)
    /\ UNCHANGED final_state

\* A node returned its state: the engine moves along the node's edge, and
\* app.invoke returns the state when the edge leads to END.
Advance(node, s) ==
    /\ pc' = edges[node]
    /\ state' = s
    /\ executed' = Append(executed, node)
    /\ final_state' = IF edges[node] = "END" THEN [bound |-> TRUE, value |-> s]
                      ELSE final_state

Finish(node, s, w) ==
    /\ Commit(w)
    /\ IF Ok(w) THEN Advance(node, s) ELSE Halt(node, s)

Env == <<driving_style, args, result>>

-----------------------------------------------------------------------------
(* The agent nodes *)

data_analysis_node ==
    /\ pc = "data_analysis"
    /\ \E failAt \in Outcomes("analyze_telemetry_data"), readFails \in BOOLEAN :
         LET w1 == ueba_security_wrapper(World, "data_analysis", "DataAnalysisAgent",
                                         "read_csv", "analyze_telemetry_data", failAt)
             anomaly_dict == anomaly_row
             \* customer_df = pd.read_csv(...), called by the node itself
             w2 == [w1 EXCEPT
                      !.effects = Append(@, [node |-> "data_analysis",
                                             agent |-> "DataAnalysisAgent",
                                             effect |-> "read_csv", via |-> "direct"]),
                      !.raised = IF readFails
                                 THEN [type |-> "CapabilityFailure", msg |-> "read_csv",
                                       node |-> "data_analysis"]
                                 ELSE NoError]
             s1 == SetItem(state, "vehicle_id", anomaly_dict.vehicle_id)
             s2 == SetItem(s1, "customer_id", customer_profile.customer_id)
             s3 == SetItem(s2, "customer_name", customer_profile.customer_name)
             s4 == SetItem(s3, "anomaly_data", anomaly_dict)
             s5 == SetItem(s4, "anomaly_details",
                           [pressure |-> anomaly_dict.brake_fluid_pressure_psi,
                            thickness |-> anomaly_dict.brake_pad_thickness_mm])
         IN IF ~Ok(w1) THEN Finish("data_analysis", state, w1)
            ELSE IF ~Ok(w2) THEN Finish("data_analysis", state, w2)
            ELSE Finish("data_analysis", s5, w2)
    /\ UNCHANGED <<Env, route_label, health_score, llm_answer, bookings>>

\* The raw answers the model may give to the diagnosis prompt.
LlmAnswers ==
    {<<c>> : c \in Range(valid_components)} \cup
    { <<"'", "Engine", "'">>, <<"\"", "Tires", "\"">>, <<" ", "Steering", "\n">>,
      <<"Brake pads">>, <<"brakes">>, <<>>, <<"The likely failure is ", "Brakes">> }

diagnosis_node ==
    /\ pc = "diagnosis"
    /\ LET missing == Missing(state, <<"vehicle_id", "anomaly_data">>)
       IN IF missing # <<>>
          THEN /\ Commit([World EXCEPT !.raised = KeyError("diagnosis", missing[1])])
               /\ Halt("diagnosis", state)
               /\ UNCHANGED llm_answer
          ELSE \E failAt \in Outcomes("get_diagnosis_and_drps"), raw \in LlmAnswers :
                 LET w1 == ueba_security_wrapper(World, "diagnosis", "DiagnosisAgent",
                                                 "llm_invoke", "get_diagnosis_and_drps", failAt)
                     r == get_diagnosis_and_drps(state.vehicle_id, state.anomaly_data,
                                                 raw, driving_style)
                     s1 == SetItem(state, "diagnosis", r.diagnosis)
                     s2 == SetItem(s1, "drps_score", r.drps)
                 IN /\ Finish("diagnosis", IF Ok(w1) THEN s2 ELSE state, w1)
                    /\ llm_answer' = IF Ok(w1) THEN raw ELSE llm_answer
    /\ UNCHANGED <<Env, route_label, health_score, bookings>>

customer_engagement_node ==
    /\ pc = "customer_engagement"
    /\ LET missing == Missing(state, <<"customer_name", "drps_score", "anomaly_data",
                                       "diagnosis">>)
       IN IF missing # <<>>
          THEN /\ Commit([World EXCEPT
                            !.raised = KeyError("customer_engagement", missing[1])])
               /\ Halt("customer_engagement", state)
          ELSE \E failAt \in Outcomes("generate_xai_customer_message") :
                 LET w1 == ueba_security_wrapper(World, "customer_engagement",
                                                 "CustomerEngagementAgent", "llm_invoke",
                                                 "generate_xai_customer_message", failAt)
                     xai_message == generate_xai_customer_message(
                                        state.customer_name, state.drps_score,
                                        state.anomaly_data, state.diagnosis)
                     s1 == SetItem(state, "xai_explanation", xai_message)
                     s2 == SetItem(s1, "customer_response", "yes")
                 IN Finish("customer_engagement", IF Ok(w1) THEN s2 ELSE state, w1)
    /\ UNCHANGED <<Env, route_label, health_score, llm_answer, bookings>>

\* Variant: the first slot of the list (a Python list starts at the length
\* of the empty list).
slot_index_first == Len(<<>>)

\* slots[1]: the agent picks the second available slot
slot_index == 1

\* Variant: a handler for another exception type.
except_KeyError(e) == e.type = "KeyError"

\* except PermissionError as e: the exceptions the handler catches
except_PermissionError(e) == e.type = "PermissionError"

scheduling_node ==
    /\ pc = "scheduling"
    /\ \E f2 \in Outcomes("get_service_slots"), f3 \in Outcomes("book_appointment") :
         LET \* try: ... except PermissionError as e: state['error_message'] = str(e)
             w1 == ueba_security_wrapper(World, "scheduling", "SchedulingAgent",
                                         "get_payment_history", "lambda", 0)
             caught == except_PermissionError(w1.raised)
             s1 == IF caught THEN SetItem(state, "error_message", w1.raised.msg) ELSE state
             w1c == IF caught THEN [w1 EXCEPT !.raised = NoError] ELSE w1
             w2 == ueba_security_wrapper(w1c, "scheduling", "SchedulingAgent",
                                         "get_service_slots", "get_service_slots", f2)
             slots == get_available_slots.slots
             chosen_slot == slots[slot_index + 1]
             s2 == SetItem(s1, "appointment_slot", chosen_slot)
             w3 == ueba_security_wrapper(w2, "scheduling", "SchedulingAgent",
                                         "book_appointment", "book_appointment", f3)
             booking == mock_book_appointment(s2.vehicle_id, chosen_slot)
             s3 == SetItem(s2, "booking_status", booking.status)
         IN IF ~Ok(w1c)
            THEN Finish("scheduling", state, w1c) /\ UNCHANGED bookings
            ELSE IF ~Ok(w2)
            THEN Finish("scheduling", s1, w2) /\ UNCHANGED bookings
            ELSE IF ~HasKey(s2, "vehicle_id")
            THEN /\ Finish("scheduling", s2,
                           [w2 EXCEPT !.raised = KeyError("scheduling", "vehicle_id")])
                 /\ UNCHANGED bookings
            ELSE IF ~Ok(w3)
            THEN Finish("scheduling", s2, w3) /\ UNCHANGED bookings
            ELSE /\ Finish("scheduling", s3, w3)
                 /\ bookings' = Append(bookings, [vehicle_id |-> s2.vehicle_id,
                                                  slot |-> chosen_slot])
    /\ UNCHANGED <<Env, route_label, health_score, llm_answer>>

handle_declined_node ==
    /\ pc = "handle_decline"
    /\ Finish("handle_decline",
              SetItem(state, "booking_status", "Declined - Follow-up Scheduled"), World)
    /\ UNCHANGED <<Env, route_label, health_score, llm_answer, bookings>>

threshold == 80

\* Variant: the threshold compared with >=.
should_schedule_ge(s) ==
    IF s.drps_score >= threshold
    THEN [label |-> "continue_to_scheduling", state |-> SetItem(s, "customer_response", "yes")]
    ELSE [label |-> "handle_decline", state |-> SetItem(s, "customer_response", "no")]

\* Variant: a decline label that the mapping does not register.
should_schedule_proceed(s) ==
    IF s.drps_score > threshold
    THEN [label |-> "continue_to_scheduling", state |-> SetItem(s, "customer_response", "yes")]
    ELSE [label |-> "decline", state |-> SetItem(s, "customer_response", "no")]

\* should_schedule(state): the label it returns and the state dict as it leaves it
should_schedule(s) ==
    IF s.drps_score > threshold
    THEN [label |-> "continue_to_scheduling", state |-> SetItem(s, "customer_response", "yes")]
    ELSE [label |-> "handle_decline", state |-> SetItem(s, "customer_response", "no")]

\* The conditional edge after customer_engagement: the router is evaluated and its
\* label looked up in the mapping.  Whether the router's assignment to the dict it
\* was handed reaches the graph's state is the engine's choice (keeps).
conditional_edge ==
    /\ pc = "should_schedule"
    /\ IF ~HasKey(state, "drps_score")
       THEN /\ pc' = "FAILED"
            /\ raised' = KeyError("should_schedule", "drps_score")
            /\ UNCHANGED <<state, route_label>>
       ELSE \E keeps \in BOOLEAN :
              LET r == should_schedule(state)
              IN /\ route_label' = r.label
                 /\ state' = IF keeps THEN r.state ELSE state
                 /\ IF r.label \in DOMAIN conditional_edges
                    THEN pc' = conditional_edges[r.label] /\ UNCHANGED raised
                    ELSE /\ pc' = "FAILED"
                         /\ raised' = KeyError("should_schedule", r.label)
    /\ UNCHANGED <<Env, allowed_tools, audit, calls, effects, executed, final_state, health_score,
                   llm_answer, bookings>>

\* Variant: the node also resets the error slot as it finishes.
feedback_writes_reset(s, insight) ==
    SetItem(SetItem(s, "final_insight", insight), "error_message", "")

\* state['final_insight'] = insight
feedback_writes(s, insight) == SetItem(s, "final_insight", insight)

feedback_and_insight_node ==
    /\ pc = "feedback_and_insight"
    /\ IF ~HasKey(state, "vehicle_id")
       THEN /\ Commit([World EXCEPT
                         !.raised = KeyError("feedback_and_insight", "vehicle_id")])
            /\ Halt("feedback_and_insight", state)
            /\ UNCHANGED health_score
       ELSE \E failAt \in Outcomes("perform_rca_and_update_score") :
              LET w1 == ueba_security_wrapper(World, "feedback_and_insight", "FeedbackAgent",
                                              "read_csv", "perform_rca_and_update_score",
                                              failAt)
                  r == perform_rca_and_update_score(state.vehicle_id, health_score)
                  s1 == feedback_writes(state, r.insight)
              IN /\ Finish("feedback_and_insight", IF Ok(w1) THEN s1 ELSE state, w1)
                 /\ health_score' = IF Ok(w1) THEN r.new_score ELSE health_score
    /\ UNCHANGED <<Env, route_label, llm_answer, bookings>>

-----------------------------------------------------------------------------
(* app.invoke({}) on the compiled graph *)

\* Nothing has run yet.
Fresh ==
    /\ audit = <<>>
    /\ calls = <<>>
    /\ effects = <<>>
    /\ executed = <<>>
    /\ raised = NoError
    /\ final_state = Unbound
    /\ route_label = NoLabel
    /\ llm_answer = NoAnswer
    /\ bookings = <<>>
    /\ result = NoResult

Init ==
    /\ pc = entry_point
    /\ state = EmptyDict
    /\ allowed_tools = ALLOWED_TOOLS
    /\ driving_style \in styles
    /\ health_score \in {HealthScoreMin, HealthScoreMax}
    /\ args = NoArgs
    /\ Fresh

Next ==
    \/ data_analysis_node
    \/ diagnosis_node
    \/ customer_engagement_node
    \/ conditional_edge
    \/ scheduling_node
    \/ handle_declined_node
    \/ feedback_and_insight_node

Spec == Init /\ [][Next]_vars

\* The engine runs the graph on: a node that can run does run.
FairSpec == Spec /\ WF_vars(Next)

-----------------------------------------------------------------------------
(* ueba_security_wrapper applied on its own, over roles, tool names, callables *)
(* and tables                                                                  *)

Agents == (DOMAIN ALLOWED_TOOLS) \cup {"AuditAgent", "UnknownAgent"}

ToolNames ==
    UNION {Range(ALLOWED_TOOLS[a]) : a \in DOMAIN ALLOWED_TOOLS}
        \cup {"get_payment_history", "*"}

Funcs == {"lambda", "analyze_telemetry_data", "perform_rca_and_update_score"}

\* The shipped table, and the shipped table with one more role configured.
PolicyTables ==
    { ALLOWED_TOOLS,
      [a \in (DOMAIN ALLOWED_TOOLS) \cup {"AuditAgent"} |->
          IF a = "AuditAgent" THEN <<>> ELSE ALLOWED_TOOLS[a]],
      [a \in (DOMAIN ALLOWED_TOOLS) \cup {"AuditAgent"} |->
          IF a = "AuditAgent" THEN <<"*">> ELSE ALLOWED_TOOLS[a]] }

InitWrapper ==
    /\ pc = "call"
    /\ state = EmptyDict
    /\ allowed_tools \in PolicyTables
    /\ driving_style = "City"
    /\ health_score = HealthScoreMin
    /\ \E a \in Agents, tl \in ToolNames, f \in Funcs :
         \E k \in Outcomes(f) :
           args = [fn |-> "ueba_security_wrapper", agent_name |-> a, tool_name |-> tl,
                   func |-> f, failAt |-> k]
    /\ Fresh

CallWrapper ==
    /\ pc = "call"
    /\ args.fn = "ueba_security_wrapper"
    /\ LET w == ueba_security_wrapper(World, "caller", args.agent_name, args.tool_name,
                                      args.func, args.failAt)
       IN /\ Commit(w)
          /\ result' = [fn |-> "ueba_security_wrapper", raised |-> w.raised,
                         value |-> w.value]
    /\ pc' = "returned"
    /\ UNCHANGED <<state, executed, final_state, route_label, driving_style,
                   health_score, llm_answer, bookings, args>>

SpecWrapper == InitWrapper /\ [][CallWrapper]_vars

-----------------------------------------------------------------------------
(* The priority score applied on its own to two severities *)

MaxSeverity == 10

MaxCustomerFactor == 10

Risk10s == {0, 50, failure_risk_score10, 100}

InitDrps ==
    /\ pc = "call"
    /\ state = EmptyDict
    /\ allowed_tools = ALLOWED_TOOLS
    /\ driving_style = "City"
    /\ health_score = HealthScoreMin
    /\ \E s1 \in 0..MaxSeverity, s2 \in 0..MaxSeverity, r \in Risk10s,
          cf \in {0, 5, 9, MaxCustomerFactor} :
         args = [fn |-> "drps", s1 |-> s1, s2 |-> s2, risk10 |-> r, customer_factor |-> cf]
    /\ Fresh

CallDrps ==
    /\ pc = "call"
    /\ args.fn = "drps"
    /\ result' = [fn |-> "drps",
                  d1 |-> drps_of(args.s1, args.risk10, args.customer_factor),
                  d2 |-> drps_of(args.s2, args.risk10, args.customer_factor)]
    /\ pc' = "returned"
    /\ UNCHANGED <<state, allowed_tools, audit, calls, effects, executed, raised,
                   final_state, route_label, driving_style, health_score, llm_answer,
                   bookings, args>>

SpecDrps == InitDrps /\ [][CallDrps]_vars

-----------------------------------------------------------------------------
(* The graph entered at the conditional edge, over the scores the router may meet *)

ScoreSpan == 60

\* The fields the first three nodes leave in the state, for a score n.
EngagedState(n) ==
    [ vehicle_id       |-> anomaly_row.vehicle_id,
      customer_id      |-> customer_profile.customer_id,
      customer_name    |-> customer_profile.customer_name,
      anomaly_data     |-> anomaly_row,
      anomaly_details  |-> [pressure |-> anomaly_row.brake_fluid_pressure_psi,
                            thickness |-> anomaly_row.brake_pad_thickness_mm],
      diagnosis        |-> "Brakes",
      drps_score       |-> n,
      xai_explanation  |-> generate_xai_customer_message(customer_profile.customer_name, n,
                                                         anomaly_row, "Brakes"),
      customer_response |-> "yes" ]

InitRouter ==
    /\ pc = "should_schedule"
    /\ \E n \in (threshold - ScoreSpan)..(threshold + ScoreSpan) : state = EngagedState(n)
    /\ allowed_tools = ALLOWED_TOOLS
    /\ driving_style \in styles
    /\ health_score \in {HealthScoreMin, HealthScoreMax}
    /\ args = NoArgs
    /\ Fresh

NextRouter ==
    \/ conditional_edge
    \/ scheduling_node
    \/ handle_declined_node
    \/ feedback_and_insight_node

SpecRouter == InitRouter /\ [][NextRouter]_vars

-----------------------------------------------------------------------------
(* A node, or the router, run on a state that lacks some of the fields it reads *)

ReadFields == {"vehicle_id", "anomaly_data", "customer_name", "diagnosis", "drps_score"}

NodeNames ==
    {"data_analysis", "diagnosis", "customer_engagement", "scheduling", "handle_decline",
     "feedback_and_insight"}

\* The dict d without the keys of gone.
Without(d, gone) == [k \in (DOMAIN d) \ gone |-> d[k]]

InitSeeded ==
    /\ pc \in NodeNames \cup {"should_schedule"}
    /\ \E n \in {threshold, threshold + 1}, gone \in SUBSET ReadFields :
         state = Without(EngagedState(n), gone)
    /\ allowed_tools = ALLOWED_TOOLS
    /\ driving_style \in styles
    /\ health_score = HealthScoreMin
    /\ args = NoArgs
    /\ Fresh

SpecSeeded == InitSeeded /\ [][Next]_vars

-----------------------------------------------------------------------------
(* Properties *)

\* Membership of tool tl in the list table configures for role a, stated on the table.
Listed(table, a, tl) ==
    /\ a \in DOMAIN table
    /\ \E i \in 1..Len(table[a]) : table[a][i] = tl

Returned == pc = "returned" /\ args.fn = "ueba_security_wrapper"

\* C1: for every role, capability name and callable handed to
\* ueba_security_wrapper, the callable is executed (once) if and only if the
\* capability name is in the role's allow-list; when it is not, the callable is
\* executed zero times, none of its effects happens, and the call fails with a
\* PermissionError whose text names the role and the capability.
C1_WrapperRunsIffAllowed ==
    Returned =>
        LET listed == Listed(allowed_tools, args.agent_name, args.tool_name)
        IN /\ listed <=> calls = <<[agent |-> args.agent_name, tool |-> args.tool_name,
                                    func |-> args.func]>>
           /\ ~listed =>
                /\ calls = <<>>
                /\ effects = <<>>
                /\ result.raised.type = "PermissionError"
                /\ result.raised.msg =
                      "Unauthorized access attempt by " \o args.agent_name
                          \o " on tool " \o args.tool_name
           /\ listed => result.raised.type # "PermissionError"

\* A denied call of a callable that has effects: SchedulingAgent asking for write_csv.
C1_Witness ==
    /\ Returned
    /\ ~Listed(allowed_tools, args.agent_name, args.tool_name)
    /\ args.func = "perform_rca_and_update_score"
    /\ calls = <<>>
    /\ result.raised.type = "PermissionError"

\* C2: the permit decision for (role, capability) is exactly the membership of the
\* capability in the list configured for that role: a role absent from the table
\* and a role configured with an empty list are denied every capability, and a
\* capability listed for one role, or a "*" entry, opens nothing else.
C2_DecisionIsMembership ==
    Returned =>
        LET decision == audit[Len(audit)].outcome
            a == args.agent_name
        IN /\ Len(audit) = 1
           /\ decision = "ALLOWED" <=> Listed(allowed_tools, a, args.tool_name)
           /\ decision = "DENIED" <=> ~Listed(allowed_tools, a, args.tool_name)
           /\ a \notin DOMAIN allowed_tools => decision = "DENIED"
           /\ (a \in DOMAIN allowed_tools /\ allowed_tools[a] = <<>>) => decision = "DENIED"
           /\ (a \in DOMAIN allowed_tools /\ allowed_tools[a] = <<"*">>
                 /\ args.tool_name # "*") => decision = "DENIED"

\* A role absent from the table asks for a capability that other roles hold.
C2_Witness ==
    /\ Returned
    /\ args.agent_name \notin DOMAIN allowed_tools
    /\ args.tool_name = "read_csv"
    /\ audit[1].outcome = "DENIED"

\* The role each node is bound to.
NodeRole(node) ==
    CASE node = "data_analysis"        -> "DataAnalysisAgent"
      [] node = "diagnosis"            -> "DiagnosisAgent"
      [] node = "customer_engagement"  -> "CustomerEngagementAgent"
      [] node = "scheduling"           -> "SchedulingAgent"
      [] node = "feedback_and_insight" -> "FeedbackAgent"
      [] OTHER                         -> "none"

\* C3: every external capability effect a node performs happens inside a
\* ueba_security_wrapper invocation made with that node's role and with the name
\* of that capability; no node performs an effect outside the wrapper.
C3_EveryEffectWrapped ==
    \A i \in 1..Len(effects) :
        /\ effects[i].via # "direct"
        /\ effects[i].via = effects[i].effect
        /\ effects[i].agent = NodeRole(effects[i].node)

SchedulingRan == "scheduling" \in Range(executed)

DeniedPayment ==
    [agent |-> "SchedulingAgent", tool |-> "get_payment_history", outcome |-> "DENIED"]

\* The scheduling node's attempt was denied and caught, and did not halt the run.
C4_DeniedAndCaught ==
    SchedulingRan =>
        /\ \E i \in 1..Len(audit) : audit[i] = DeniedPayment
        /\ \A i \in 1..Len(calls) : calls[i].tool # "get_payment_history"
        /\ HasKey(state, "error_message")
        /\ state.error_message =
              "Unauthorized access attempt by SchedulingAgent on tool get_payment_history"
        /\ raised.type # "PermissionError"

\* The slot and booking calls of the scheduling node returned.
Booked == SchedulingRan /\ bookings # <<>>

RunOver == pc \in {"END", "FAILED"}

\* C4 as stated: whenever the scheduling node runs, its get_payment_history call is
\* denied, the denial is caught and its text stored in state.error_message, the
\* run is not halted by it, and, the slot and booking calls having returned, the
\* run ends at END after feedback_and_insight.
C4_AsStated ==
    /\ C4_DeniedAndCaught
    /\ (Booked /\ RunOver) =>
          /\ pc = "END"
          /\ executed[Len(executed)] = "feedback_and_insight"

\* C4, amended: ... and, the slot and booking calls having returned, the run goes
\* on to feedback_and_insight and from there to END, unless the feedback node's own
\* capability call fails, which halts the run in that node.
C4_DenialDoesNotHaltRun ==
    /\ [](C4_DeniedAndCaught
            /\ (Booked => \/ pc = "feedback_and_insight"
                          \/ pc = "END" /\ executed[Len(executed)] = "feedback_and_insight"
                          \/ /\ pc = "FAILED"
                             /\ raised.node = "feedback_and_insight"
                             /\ raised.type = "CapabilityFailure"))
    /\ (Booked ~> (pc = "END" \/ raised.node = "feedback_and_insight"))

\* The denial was caught, the booking made, and the run reached END.
C4_Witness ==
    /\ pc = "END"
    /\ Booked
    /\ HasKey(state, "error_message")
    /\ executed[Len(executed)] = "feedback_and_insight"

\* C5: should_schedule returns "continue_to_scheduling" exactly when
\* drps_score > 80 and "handle_decline" otherwise, so the node that follows
\* customer_engagement is scheduling iff drps_score > 80 (81 schedules, 80 declines).
C5_RouterThreshold ==
    route_label # NoLabel =>
        LET high == state.drps_score > 80
        IN /\ route_label = "continue_to_scheduling" <=> high
           /\ route_label = "handle_decline" <=> ~high
           /\ executed = <<>> => pc = (IF high THEN "scheduling" ELSE "handle_decline")
           /\ ("scheduling" \in Range(executed) \/ pc = "scheduling") => high
           /\ ("handle_decline" \in Range(executed) \/ pc = "handle_decline") => ~high

\* The lower boundary case: a score of 81 is sent to scheduling.
C5_Witness ==
    /\ state.drps_score = 81
    /\ route_label = "continue_to_scheduling"
    /\ pc = "scheduling"

\* C6: in every run from the empty state that completes without failure, the final
\* state has a diagnosis; if drps_score > 80 its booking_status is "confirmed"; and
\* if feedback_and_insight was reached it has a final_insight.
C6_EndToEnd ==
    (pc = "END" /\ final_state.bound) =>
        LET fs == final_state.value
        IN /\ HasKey(fs, "diagnosis")
           /\ fs.diagnosis \in Range(valid_components)
           /\ fs.drps_score > 80 =>
                 HasKey(fs, "booking_status") /\ fs.booking_status = "confirmed"
           /\ "feedback_and_insight" \in Range(executed) =>
                 HasKey(fs, "final_insight") /\ fs.final_insight.instance > 0

\* A completed run with a score above 80, booked and with its insight.
C6_Witness ==
    /\ pc = "END"
    /\ final_state.bound
    /\ final_state.value.drps_score > 80
    /\ final_state.value.booking_status = "confirmed"
    /\ HasKey(final_state.value, "final_insight")

\* C7: every label should_schedule returns, for any score, is a key of the mapping
\* registered on customer_engagement: the lookup never meets an unmapped label and
\* the run never goes on without a successor.
C7_LabelsMapped ==
    route_label # NoLabel =>
        /\ route_label \in DOMAIN conditional_edges
        /\ ~(raised.type = "KeyError" /\ raised.node = "should_schedule")
        /\ executed = <<>> => pc = conditional_edges[route_label]

\* The router has just returned the decline label and the run stands at its successor.
C7_Witness ==
    /\ route_label = "handle_decline"
    /\ pc = "handle_decline"
    /\ executed = <<>>

\* C8: when a node fails without recovering, the run halts at that node, no later
\* node executes and no later capability is called, and the caller receives the
\* partially-populated state together with a failure naming the failing node.
C8_HaltReturnsPartialState ==
    pc = "FAILED" =>
        /\ raised # NoError
        /\ executed # <<>> => raised.node = executed[Len(executed)]
        /\ final_state.bound
        /\ final_state.value = state

\* C9 as stated, over the model's answers: the returned category is a valid
\* component; an answer inside the set is kept; any answer outside the set is
\* replaced by "Brakes".
C9_AsStated ==
    (llm_answer # NoAnswer /\ HasKey(state, "diagnosis")) =>
        LET answer == Join(llm_answer)
        IN /\ state.diagnosis \in Range(valid_components)
           /\ answer \in Range(valid_components) => state.diagnosis = answer
           /\ answer \notin Range(valid_components) => state.diagnosis = "Brakes"

\* C9, amended: the returned category is a valid component; the answer is first
\* stripped of surrounding white space and of its quote characters, and that text
\* is kept when it is inside the set and replaced by "Brakes" when it is not.
C9_CleanedAnswerOrDefault ==
    (llm_answer # NoAnswer /\ HasKey(state, "diagnosis")) =>
        LET answer == Join(llm_answer)
            cleaned == clean_answer(llm_answer)
        IN /\ state.diagnosis \in Range(valid_components)
           /\ answer \in Range(valid_components) => state.diagnosis = answer
           /\ cleaned \in Range(valid_components) => state.diagnosis = cleaned
           /\ cleaned \notin Range(valid_components) => state.diagnosis = "Brakes"

\* An answer outside the set, not the default even when cleaned, was replaced.
C9_Witness ==
    /\ llm_answer = <<"Brake pads">>
    /\ HasKey(state, "diagnosis")
    /\ state.diagnosis = "Brakes"

\* C10: the priority score is monotonically non-decreasing in the severity
\* sub-score: for severities s1 <= s2 with the failure-risk and customer-factor
\* sub-scores equal, drps(s1) <= drps(s2).
C10_DrpsMonotone ==
    (pc = "returned" /\ result.fn = "drps" /\ args.s1 <= args.s2) =>
        result.d1 <= result.d2

\* Two different severities scored with the shipped failure risk.
C10_Witness ==
    /\ pc = "returned"
    /\ result.fn = "drps"
    /\ args.s1 < args.s2
    /\ args.risk10 = failure_risk_score10
    /\ result.d1 < result.d2

\* The score the diagnosis gives component c for a customer of driving style st.
ScoreOf(c, st) == get_diagnosis_and_drps(anomaly_row.vehicle_id, anomaly_row, <<c>>, st).drps

\* C11: the priority score written to state.drps_score is an integer in 0..100 for
\* every valid component of the safety table, failure-risk sub-score 9.2 and
\* customer factor 5 or 9; over these inputs some score is above 80 and some is not,
\* so both router outcomes are reachable.
C11_ScoreInRange ==
    /\ (llm_answer # NoAnswer /\ HasKey(state, "drps_score")) =>
          /\ state.drps_score \in 0..100
          /\ state.drps_score = ScoreOf(state.diagnosis, driving_style)
    /\ \A c \in Range(valid_components), st \in styles : ScoreOf(c, st) \in 0..100
    /\ \E c \in Range(valid_components), st \in styles : ScoreOf(c, st) > 80
    /\ \E c \in Range(valid_components), st \in styles : ScoreOf(c, st) <= 80

\* A run whose score of exactly 80 (Suspension, Highway) was declined.
C11_Witness ==
    /\ llm_answer # NoAnswer
    /\ HasKey(state, "drps_score")
    /\ state.drps_score = 80
    /\ route_label = "handle_decline"

\* C12: once state.error_message has been set, no later node or router clears it or
\* changes it: it keeps its value in every subsequent state up to the final state.
C12_ErrorMessageKept ==
    [][HasKey(state, "error_message") =>
          /\ HasKey(state', "error_message")
          /\ state'.error_message = state.error_message
          /\ final_state'.bound =>
                /\ HasKey(final_state'.value, "error_message")
                /\ final_state'.value.error_message = state.error_message]_vars

\* The feedback node has run after the denial was recorded, and the run is over.
C12_Witness ==
    /\ pc = "END"
    /\ HasKey(final_state.value, "error_message")
    /\ HasKey(final_state.value, "final_insight")

\* C13: should_schedule is a pure predicate: evaluating it leaves every field of the
\* workflow state unchanged, in particular the customer_response written by the
\* engagement node, and its result depends only on drps_score.
C13_RouterIsPure ==
    [][(pc = "should_schedule" /\ HasKey(state, "drps_score")) =>
          /\ state' = state
          /\ should_schedule(state).state = state
          /\ route_label' = (IF state.drps_score > 80 THEN "continue_to_scheduling"
                             ELSE "handle_decline")]_vars

PathSchedule ==
    <<"data_analysis", "diagnosis", "customer_engagement", "scheduling",
      "feedback_and_insight">>

PathDecline == <<"data_analysis", "diagnosis", "customer_engagement", "handle_decline">>

IsPrefix(s, p) == Len(s) <= Len(p) /\ s = SubSeq(p, 1, Len(s))

\* C14: every run is a single acyclic path: it starts at data_analysis, runs each
\* node at most once, follows data_analysis, diagnosis, customer_engagement and then
\* either scheduling, feedback_and_insight or handle_decline, and, when no node
\* fails, eventually reaches END.
C14_SingleAcyclicPath ==
    /\ [](/\ IsPrefix(executed, PathSchedule) \/ IsPrefix(executed, PathDecline)
          /\ \A i, j \in 1..Len(executed) : executed[i] = executed[j] => i = j
          /\ pc = "END" => executed \in {PathSchedule, PathDecline}
          /\ pc = "FAILED" => raised # NoError)
    /\ <>(pc = "END" \/ raised # NoError)

\* A run that took the decline branch and ended.
C14_Witness == pc = "END" /\ executed = PathDecline

\* The state fields each node reads before it acts.
RequiredFields ==
    [ diagnosis            |-> <<"vehicle_id", "anomaly_data">>,
      customer_engagement  |-> <<"customer_name", "drps_score", "anomaly_data", "diagnosis">>,
      scheduling           |-> <<"vehicle_id">>,
      feedback_and_insight |-> <<"vehicle_id">> ]

Unmet == pc \in DOMAIN RequiredFields /\ Missing(state, RequiredFields[pc]) # <<>>

\* C15: a node run on a state that lacks a field it requires fails the run with an
\* unmet-precondition error; it never goes on with a null, calls no capability and
\* writes none of its output fields.
C15_UnmetPreconditionFails ==
    [][Unmet =>
          /\ pc' = "FAILED"
          /\ raised'.type = "KeyError"
          /\ raised'.msg \in Range(RequiredFields[pc])
          /\ state' = state
          /\ audit' = audit
          /\ calls' = calls
          /\ effects' = effects
          /\ bookings' = bookings]_vars

\* The wrapper lines of the scheduling node.
SchedulingAudit == SelectSeq(audit, LAMBDA a : a.agent = "SchedulingAgent")

SchedulingCalls == SelectSeq(calls, LAMBDA c : c.agent = "SchedulingAgent")

\* C16: inside the scheduling node the denied get_payment_history attempt comes
\* first, then get_service_slots, then book_appointment, never before the slots
\* have been returned; the booking is made for state.vehicle_id and the slot at index
\* 1 of the returned list, state.appointment_slot is that slot, and
\* state.booking_status is the status the booking call returned.
C16_SchedulingOrder ==
    /\ IsPrefix(SchedulingAudit,
                <<DeniedPayment,
                  [agent |-> "SchedulingAgent", tool |-> "get_service_slots",
                   outcome |-> "ALLOWED"],
                  [agent |-> "SchedulingAgent", tool |-> "book_appointment",
                   outcome |-> "ALLOWED"]>>)
    /\ IsPrefix(SchedulingCalls,
                <<[agent |-> "SchedulingAgent", tool |-> "get_service_slots",
                   func |-> "get_service_slots"],
                  [agent |-> "SchedulingAgent", tool |-> "book_appointment",
                   func |-> "book_appointment"]>>)
    /\ Len(bookings) <= 1
    /\ bookings # <<>> =>
          /\ Len(SchedulingAudit) = 3
          /\ bookings[1] = [vehicle_id |-> state.vehicle_id,
                            slot |-> get_available_slots.slots[2]]
          /\ state.appointment_slot = get_available_slots.slots[2]
          /\ state.appointment_slot = "11:00 AM"
          /\ state.booking_status =
                mock_book_appointment(state.vehicle_id, state.appointment_slot).status

\* The booking has been made and the node has returned.
C16_Witness ==
    /\ bookings # <<>>
    /\ pc = "feedback_and_insight"
    /\ state.booking_status = "confirmed"

\* C17: every invocation through ueba_security_wrapper emits exactly one audit
\* record: DENIED for a denied call, ALLOWED for a permitted one; when a permitted
\* callable fails, its error reaches the caller and the one record is still ALLOWED;
\* when it succeeds the callable's result is returned unchanged.
C17_OneAuditRecord ==
    Returned =>
        LET listed == Listed(allowed_tools, args.agent_name, args.tool_name)
        IN /\ Len(audit) = 1
           /\ audit[1].agent = args.agent_name
           /\ audit[1].tool = args.tool_name
           /\ audit[1].outcome = (IF listed THEN "ALLOWED" ELSE "DENIED")
           /\ (listed /\ args.failAt # 0) =>
                 /\ result.raised.type = "CapabilityFailure"
                 /\ result.raised.msg = FuncEffects(args.func)[args.failAt]
           /\ (listed /\ args.failAt = 0) =>
                 /\ result.raised = NoError
                 /\ result.value = [returned_by |-> args.func]
           /\ ~(listed /\ args.failAt = 0) => result.value = NoValue

\* A permitted callable failed at its last effect; the record reads ALLOWED.
C17_Witness ==
    /\ Returned
    /\ args.agent_name = "FeedbackAgent"
    /\ args.tool_name = "read_csv"
    /\ args.func = "perform_rca_and_update_score"
    /\ args.failAt = 4
    /\ audit = <<[agent |-> "FeedbackAgent", tool |-> "read_csv", outcome |-> "ALLOWED"]>>
    /\ result.raised.type = "CapabilityFailure"

\* C18: when the router selects "handle_decline", handle_decline is the last node of
\* the run: scheduling and feedback_and_insight never run, no slot is fetched or
\* booked, the stored health score is not changed, error_message and final_insight
\* are never set, and the final booking_status is 'Declined - Follow-up Scheduled'.
C18_DeclineIsTerminal ==
    route_label = "handle_decline" =>
        /\ pc \in {"handle_decline", "END"}
        /\ "scheduling" \notin Range(executed)
        /\ "feedback_and_insight" \notin Range(executed)
        /\ bookings = <<>>
        /\ \A i \in 1..Len(effects) :
              effects[i].effect \notin {"get_service_slots", "book_appointment", "write_csv"}
        /\ health_score \in {HealthScoreMin, HealthScoreMax}
        /\ ~HasKey(state, "error_message")
        /\ ~HasKey(state, "final_insight")
        /\ pc = "END" =>
              /\ executed # <<>>
              /\ executed[Len(executed)] = "handle_decline"
              /\ final_state.bound
              /\ final_state.value.booking_status = "Declined - Follow-up Scheduled"
              /\ ~HasKey(final_state.value, "error_message")
              /\ ~HasKey(final_state.value, "final_insight")

\* A declined run that has ended.
C18_Witness ==
    /\ route_label = "handle_decline"
    /\ pc = "END"
    /\ final_state.value.booking_status = "Declined - Follow-up Scheduled"

\* C19: ALLOWED_TOOLS is never mutated: in every reachable state of every run, also
\* after a denied call and after a node failure, the table equals the one built at
\* process start.
C19_PolicyNeverMutated ==
    /\ allowed_tools = ALLOWED_TOOLS
    /\ DOMAIN allowed_tools =
          {"DataAnalysisAgent", "DiagnosisAgent", "CustomerEngagementAgent",
           "SchedulingAgent", "FeedbackAgent"}
    /\ allowed_tools["SchedulingAgent"] = <<"get_service_slots", "book_appointment">>

\* A run that failed in a node after the scheduling node's call was denied.
C19_Witness ==
    /\ pc = "FAILED"
    /\ \E i \in 1..Len(audit) : audit[i].outcome = "DENIED"
    /\ allowed_tools = ALLOWED_TOOLS

\* The effects each role performs, under whatever name and inside the wrapper or not.
EffectsOf(role) == {effects[i].effect : i \in {j \in 1..Len(effects) : effects[j].agent = role}}

\* C20: every external effect a node performs on behalf of its role is in that
\* role's allow-list, also where it is performed under another capability name or
\* outside the wrapper: DataAnalysisAgent only reads CSV, DiagnosisAgent only reads
\* CSV and calls the model, CustomerEngagementAgent only calls the model,
\* SchedulingAgent only fetches slots and books, FeedbackAgent only reads and
\* writes CSV.
C20_EffectsWithinAllowList ==
    /\ \A i \in 1..Len(effects) :
          /\ effects[i].agent \in DOMAIN ALLOWED_TOOLS
          /\ effects[i].effect \in Range(ALLOWED_TOOLS[effects[i].agent])
    /\ EffectsOf("DataAnalysisAgent") \subseteq {"read_csv"}
    /\ EffectsOf("DiagnosisAgent") \subseteq {"read_csv", "llm_invoke"}
    /\ EffectsOf("CustomerEngagementAgent") \subseteq {"llm_invoke"}
    /\ EffectsOf("SchedulingAgent") \subseteq {"get_service_slots", "book_appointment"}
    /\ EffectsOf("FeedbackAgent") \subseteq {"read_csv", "write_csv"}

\* The feedback node has written the profile CSV inside a call named read_csv.
C20_Witness ==
    \E i \in 1..Len(effects) :
        /\ effects[i].agent = "FeedbackAgent"
        /\ effects[i].effect = "write_csv"
        /\ effects[i].via = "read_csv"

\* The wrapper lines that record a refusal.
Denials == SelectSeq(audit, LAMBDA a : a.outcome = "DENIED")

\* C21: in any run of the graph the wrapper denies at most one call, the call
\* (SchedulingAgent, get_payment_history); every other (role, capability name)
\* pair a node passes to the wrapper is permitted by ALLOWED_TOOLS, and no run is
\* halted by a policy violation.
C21_OnlyPaymentDenied ==
    /\ Len(Denials) <= 1
    /\ \A i \in 1..Len(audit) :
          \/ audit[i] = DeniedPayment
          \/ /\ audit[i].outcome = "ALLOWED"
             /\ Listed(ALLOWED_TOOLS, audit[i].agent, audit[i].tool)
    /\ raised.type # "PermissionError"
    /\ (pc = "FAILED") => raised.type = "CapabilityFailure"

\* A run through the scheduling path that ended: six permitted calls, one denied.
C21_Witness ==
    /\ pc = "END"
    /\ Len(Denials) = 1
    /\ Len(audit) = 7
    /\ Len(calls) = 6
    /\ "feedback_and_insight" \in Range(executed)

\* C22: on every path of the graph started from the empty state, each state
\* field a node or the router reads (vehicle_id, anomaly_data, customer_name,
\* diagnosis, drps_score) has been written by a node executed earlier on the
\* path; no read of an unset field occurs.
C22_ReadsAfterWrites ==
    /\ ~Unmet
    /\ (pc = "should_schedule") => HasKey(state, "drps_score")
    /\ raised.type # "KeyError"
    /\ \A f \in ReadFields :
          HasKey(state, f) => "data_analysis" \in Range(executed)
    /\ \A f \in {"diagnosis", "drps_score"} :
          HasKey(state, f) => "diagnosis" \in Range(executed)

\* A run in which every reading node and the router have acted.
C22_Witness ==
    /\ pc = "END"
    /\ executed = PathSchedule
    /\ route_label = "continue_to_scheduling"
    /\ \A f \in ReadFields : HasKey(state, f)

====
